---------------------------- MODULE Spec2Model ----------------------------
(***************************************************************************)
(* formalchemy/forms.py: FieldSet (attribute selection, form rendering,    *)
(* binding) and Field (rendering of one attribute).                        *)
(*                                                                         *)
(* Markup is modelled as a sequence of tags, one per fragment the code     *)
(* concatenates; the "\n" separators between fragments are implicit.       *)
(***************************************************************************)
EXTENDS Integers, Sequences, FiniteSets, TLC

(***************************************************************************)
(* Bounds                                                                  *)
(***************************************************************************)
\* longest `include` list a caller passes
MaxInclude == 2

(***************************************************************************)
(* The mapped class: the keys under which FieldSet.__init__ stores one     *)
(* AttributeWrapper each. A wrapper object is identified by its key.       *)
(***************************************************************************)
Wrappers == {"bio", "id", "secret_id"}

\* wrapper.name
Name(w) == w

\* Python's ordering of the names (str.__lt__), as ranks
Alphabetical == <<"bio", "id", "secret_id">>
NameRank(n) == CHOOSE i \in 1..Len(Alphabetical) : Alphabetical[i] = n

\* wrapper.column: one column object per wrapper
ColumnOf == [bio |-> "users.bio", id |-> "users.id", secret_id |-> "users.secret_id"]
Column(w) == ColumnOf[w]
Columns == {Column(w) : w \in Wrappers}

Models == {"m1", "m2"}
Sessions == {"s1", "s2", "None"}

HiddenField == "HiddenField"
TextField == "TextField"

VARIABLES
    primary_key,       \* wrappers whose column.primary_key is true
    nullable,          \* wrappers whose nullable is true
    raw_foreign_key,   \* wrappers whose is_raw_foreign_key() is true
    render_as,         \* wrapper -> wrapper.render_as
    fs,                \* the FieldSet: self.model, self.session
    wrapper_model,     \* wrapper -> wrapper.model
    wrapper_session,   \* wrapper -> wrapper.session
    ga,                \* the latest FieldSet.get_attrs call: kwargs and outcome
    frame,             \* the FieldSet.render call in progress or last returned
    fld,               \* a Field instance used on its own
    out                \* the latest Field.render call on fld: options and outcome

vars == <<primary_key, nullable, raw_foreign_key, render_as, fs, wrapper_model,
          wrapper_session, ga, frame, fld, out>>
meta == <<primary_key, nullable, raw_foreign_key, render_as>>
binding == <<fs, wrapper_model, wrapper_session>>

(***************************************************************************)
(* Helpers on sequences and option dictionaries                            *)
(***************************************************************************)
Range(s) == {s[i] : i \in 1..Len(s)}

SeqsUpTo(S, n) == UNION {[1..k -> S] : k \in 0..n}

UpToOne(S) == {{}} \cup {{x} : x \in S}

\* every iteration order of a dict holding the wrappers
Orders == {s \in [1..Cardinality(Wrappers) -> Wrappers] : Range(s) = Wrappers}

\* dict.get(key, default)
Get(d, key, default) == IF key \in DOMAIN d THEN d[key] ELSE default

\* no keyword arguments
NoOptions == [k \in {} |-> TRUE]

\* BaseModelRender.new_options / BaseColumnRender.new_options: the configured
\* options with the call's options laid over them, key by key
new_options(config, options) ==
    [k \in (DOMAIN config) \cup (DOMAIN options) |->
        IF k \in DOMAIN options THEN options[k] ELSE config[k]]

\* AttributeWrapper equality, used by `in` on lists and dicts: identity
WrapperEq(a, b) == a = b

\* list.sort(key=name): a stable insertion sort
RECURSIVE InsertByName(_, _)
InsertByName(sorted, w) ==
    IF sorted = <<>> THEN <<w>>
    ELSE IF NameRank(Name(w)) < NameRank(Name(Head(sorted)))
         THEN <<w>> \o sorted
         ELSE <<Head(sorted)>> \o InsertByName(Tail(sorted), w)

RECURSIVE SortByName(_)
SortByName(s) ==
    IF s = <<>> THEN <<>>
    ELSE InsertByName(SortByName(SubSeq(s, 1, Len(s) - 1)), s[Len(s)])

(***************************************************************************)
(* FieldSet: attribute selection                                           *)
(***************************************************************************)
\* faulty variant: the wrappers in dict order, the sort left out
raw_attrs_unsorted(order) == order

\* FieldSet._raw_attrs; `order` is the iteration order of self.__dict__
raw_attrs(order) == SortByName(order)

Returned(L) == [raised |-> "", value |-> L]
Raised(msg) == [raised |-> msg, value |-> <<>>]

ConflictingFilter == "Specify at most one of include, exclude"

RECURSIVE get_attrs(_, _)

\* FieldSet.get_pks
get_pks(order) ==
    LET IsPk(wrapper) == wrapper \in primary_key
    IN  SelectSeq(get_attrs(order, NoOptions).value, IsPk)

\* faulty variant: the raw foreign keys are not ignored
ignored_without_fk(order, pk, exclude) ==
    exclude \cup (IF ~pk THEN Range(get_pks(order)) ELSE {})

\* the `ignore` list of get_attrs; only membership in it is ever tested
ignored(order, pk, exclude) ==
    exclude
      \cup (IF ~pk THEN Range(get_pks(order)) ELSE {})
      \cup {wrapper \in Range(raw_attrs(order)) : wrapper \in raw_foreign_key}

\* faulty variant: the primary keys come first, then every attribute
filtered_pks_first(order, ignore) ==
    LET Keep(attr) == ~\E x \in ignore : WrapperEq(attr, x)
        IsPk(attr) == attr \in primary_key
        kept == SelectSeq(raw_attrs(order), Keep)
    IN  SelectSeq(kept, IsPk) \o kept

\* [attr for attr in self._raw_attrs() if attr not in ignore]
filtered(order, ignore) ==
    LET Keep(attr) == ~\E x \in ignore : WrapperEq(attr, x)
    IN  SelectSeq(raw_attrs(order), Keep)

\* the options_dict substitution of get_attrs
apply_options(include, options) ==
    [i \in 1..Len(include) |->
        IF \E o \in options : WrapperEq(o, include[i])
        THEN CHOOSE o \in options : WrapperEq(o, include[i])
        ELSE include[i]]

\* faulty variant: `include` goes through the ignore filter like the default selection
get_attrs_include_filtered(order, kwargs) ==
    LET pk == Get(kwargs, "pk", TRUE)
        exclude == Get(kwargs, "exclude", {})
        include == Get(kwargs, "include", <<>>)
        options == Get(kwargs, "options", {})
        ignore == ignored(order, pk, exclude)
        Keep(attr) == attr \notin ignore
    IN  IF include # <<>> /\ exclude # {}
        THEN Raised(ConflictingFilter)
        ELSE Returned(apply_options(
                 IF include = <<>> THEN filtered(order, ignore)
                 ELSE SelectSeq(include, Keep), options))

\* faulty variant: the include/exclude conflict is not detected
get_attrs_no_conflict_check(order, kwargs) ==
    LET pk == Get(kwargs, "pk", TRUE)
        exclude == Get(kwargs, "exclude", {})
        include == Get(kwargs, "include", <<>>)
        options == Get(kwargs, "options", {})
    IN  Returned(apply_options(
            IF include = <<>> THEN filtered(order, ignored(order, pk, exclude))
            ELSE include, options))

\* FieldSet.get_attrs. `exclude` and `options` are iterables of wrappers of
\* which only membership is used; every element passes validate_columns.
get_attrs(order, kwargs) ==
    LET pk == Get(kwargs, "pk", TRUE)
        exclude == Get(kwargs, "exclude", {})
        include == Get(kwargs, "include", <<>>)
        options == Get(kwargs, "options", {})
    IN  IF include # <<>> /\ exclude # {}
        THEN Raised(ConflictingFilter)
        ELSE Returned(apply_options(
                 IF include = <<>> THEN filtered(order, ignored(order, pk, exclude))
                 ELSE include, options))

(***************************************************************************)
(* Field: rendering of one attribute                                       *)
(***************************************************************************)
Tag(tag, name, cls) == [tag |-> tag, of |-> name, cls |-> cls]

\* faulty variant: a Field taken over with the focus flag of the form's previous Field
Field_init_stale(attr, make_label) ==
    [wrapper |-> attr, make_label |-> make_label,
     focus_rendered |-> frame.field_render.focus_rendered, config |-> NoOptions]

\* Field.__init__
Field_init(attr, make_label) ==
    [wrapper |-> attr, make_label |-> make_label,
     focus_rendered |-> FALSE, config |-> NoOptions]

\* before any Field exists
NoField ==
    [wrapper |-> "None", make_label |-> TRUE, focus_rendered |-> FALSE, config |-> NoOptions]

\* faulty variant: hidden fields are rendered like any other
IsHidden_never(self) == FALSE

\* self.wrapper.render_as == fields.HiddenField
IsHidden(self) == render_as[self.wrapper] = HiddenField

\* faulty variant: the once-only guard is left out
EmitsFocus_unguarded(self, focus) ==
    focus = Column(self.wrapper) \/ focus = "True"

\* the condition under which Field.render appends the focus script
EmitsFocus(self, focus) ==
    (focus = Column(self.wrapper) \/ focus = "True") /\ ~self.focus_rendered

\* Field.render: the markup returned and the Field afterwards
Field_render(self, options) ==
    LET opts == new_options(self.config, options)
        make_label == Get(opts, "make_label", self.make_label)
        focus == Get(opts, "focus", "True")
        errors == Get(opts, "error", {})
        docs == Get(opts, "doc", {})
        cls_fld_req == Get(opts, "cls_req", "field_req")
        cls_fld_opt == Get(opts, "cls_opt", "field_opt")
        cls_span_doc == Get(opts, "span_doc", "span_doc")
        cls_span_err == Get(opts, "span_err", "span_err")
        w == self.wrapper
        input == <<Tag("input", Name(w), "")>>
        label == IF make_label
                 THEN <<Tag("label", Name(w),
                            IF w \in nullable THEN cls_fld_opt ELSE cls_fld_req)>>
                 ELSE <<>>
        error == IF Column(w) \in errors
                 THEN <<Tag("span", Name(w), cls_span_err)>> ELSE <<>>
        doc == IF Column(w) \in docs
               THEN <<Tag("span", Name(w), cls_span_doc)>> ELSE <<>>
        field == label \o input \o error \o doc
        wrapped == IF self.make_label
                   THEN <<Tag("<div>", "", "")>> \o field \o <<Tag("</div>", "", "")>>
                   ELSE field
        emit == EmitsFocus(self, focus)
    IN  IF IsHidden(self)
        THEN [ret |-> input, self |-> self]
        ELSE [ret |-> wrapped \o (IF emit THEN <<Tag("script", Name(w), "")>> ELSE <<>>),
              self |-> [self EXCEPT !.focus_rendered = @ \/ emit]]

\* what a piece of markup holds
HasTag(markup, tag) == \E k \in 1..Len(markup) : markup[k].tag = tag

\* "\n".join(html)
RECURSIVE Join(_)
Join(html) == IF html = <<>> THEN <<>> ELSE Head(html) \o Join(Tail(html))

(***************************************************************************)
(* States                                                                  *)
(***************************************************************************)
NoCall == [called |-> FALSE, order |-> <<>>, kwargs |-> NoOptions, ret |-> Returned(<<>>)]

NoFrame ==
    [pc |-> "idle", opts |-> NoOptions, attrs |-> <<>>, i |-> 1, html |-> <<>>,
     field_render |-> NoField, ret |-> <<>>, raised |-> "", prior_focus |-> FALSE]

NoRender == [called |-> FALSE, self |-> NoField, options |-> NoOptions, ret |-> <<>>]

\* The state after FieldSet.__init__: every wrapper is built from
\* (attr, self.model, self.session).
Init ==
    /\ primary_key \in SUBSET Wrappers
    /\ nullable \in SUBSET Wrappers
    /\ raw_foreign_key \in SUBSET Wrappers
    /\ render_as \in [Wrappers -> {HiddenField, TextField}]
    /\ \E m \in Models, s \in Sessions :
          /\ fs = [model |-> m, session |-> s]
          /\ wrapper_model = [w \in Wrappers |-> m]
          /\ wrapper_session = [w \in Wrappers |-> s]
    /\ ga = NoCall
    /\ frame = NoFrame
    /\ fld = NoField
    /\ out = NoRender

\* the mapped class of the documentation's example, every widget a text input
ExampleColumns ==
    /\ primary_key = {"id"}
    /\ nullable = {"bio"}
    /\ raw_foreign_key = {"secret_id"}

OneBinding == fs = [model |-> "m1", session |-> "s1"]

(***************************************************************************)
(* FieldSet.bind                                                           *)
(***************************************************************************)
\* BaseModelRender.bind
base_bind(self, model, session) == [self EXCEPT !.model = model, !.session = session]

\* FieldSet.bind(model, session=None)
Bind(order, model, session) ==
    /\ fs' = base_bind(fs, model, session)
    /\ wrapper_model' = [attr \in Range(raw_attrs(order)) |-> model]
    /\ UNCHANGED <<meta, wrapper_session, ga, frame, fld, out>>

(***************************************************************************)
(* FieldSet.get_attrs, called on the constructed form.  The call changes   *)
(* nothing of the form, so one call is explored from each form.            *)
(***************************************************************************)
GetAttrs(order, kwargs) ==
    /\ ga' = [called |-> TRUE, order |-> order, kwargs |-> kwargs,
              ret |-> get_attrs(order, kwargs)]
    /\ UNCHANGED <<meta, binding, frame, fld, out>>

Kwargs(pk, include, exclude, options) ==
    [pk |-> pk, include |-> include, exclude |-> exclude, options |-> options]

\* the `include` lists a caller passes: any wrappers, in any order, repeats allowed
Includes == SeqsUpTo(Wrappers, MaxInclude)

CallGetAttrs ==
    /\ ~ga.called
    /\ \E order \in Orders, pk \in BOOLEAN, include \in Includes,
          exclude \in SUBSET Wrappers, options \in SUBSET Wrappers :
           GetAttrs(order, Kwargs(pk, include, exclude, options))

(***************************************************************************)
(* FieldSet.render: the call up to the loop, one loop iteration, the       *)
(* return.                                                                 *)
(***************************************************************************)
\* the persistent configuration of the form: none is set
fs_config == NoOptions

RenderBegin(order, options) ==
    LET opts == new_options(fs_config, options)
        got == get_attrs(order, opts)
        field_render == [Field_init("None", TRUE) EXCEPT !.config = opts]
        prior == frame.prior_focus \/ frame.field_render.focus_rendered
    IN  /\ frame' =
             IF got.raised # ""
             THEN [NoFrame EXCEPT !.pc = "raised", !.opts = opts,
                                  !.raised = got.raised, !.prior_focus = prior]
             ELSE [NoFrame EXCEPT !.pc = "loop", !.opts = opts, !.attrs = got.value,
                                  !.field_render = field_render, !.prior_focus = prior]
        /\ UNCHANGED <<meta, binding, ga, fld, out>>

RenderOptions(pk, include, exclude, options, focus, notes) ==
    [pk |-> pk, include |-> include, exclude |-> exclude, options |-> options,
     focus |-> focus, error |-> notes, doc |-> notes]

FocusValues == {"True", "False"} \cup Columns

\* the first render of the form
RenderFirst ==
    /\ frame.pc = "idle"
    /\ \E order \in Orders, pk \in BOOLEAN, include \in Includes,
          exclude \in UpToOne(Wrappers), options \in {{}, Wrappers},
          focus \in FocusValues, notes \in {{}, Columns},
          make_label \in {"unset", "False"} :
           RenderBegin(order,
              IF make_label = "unset"
              THEN RenderOptions(pk, include, exclude, options, focus, notes)
              ELSE RenderOptions(pk, include, exclude, options, focus, notes)
                     @@ [make_label |-> make_label = "True"])

\* the form rendered again, after the previous render has returned or raised
RenderAgain ==
    /\ frame.pc \in {"done", "raised"}
    /\ \E order \in Orders : RenderBegin(order, frame.opts)

\* one iteration of `for attr in attrs`
RenderField ==
    /\ frame.pc = "loop"
    /\ frame.i <= Len(frame.attrs)
    /\ LET attr == frame.attrs[frame.i]
           r == Field_render([frame.field_render EXCEPT !.wrapper = attr], NoOptions)
       IN  frame' = [frame EXCEPT !.field_render = r.self,
                                  !.html = Append(@, r.ret),
                                  !.i = @ + 1]
    /\ UNCHANGED <<meta, binding, ga, fld, out>>

RenderReturn ==
    /\ frame.pc = "loop"
    /\ frame.i > Len(frame.attrs)
    /\ frame' = [frame EXCEPT !.pc = "done", !.ret = Join(frame.html)]
    /\ UNCHANGED <<meta, binding, ga, fld, out>>

(***************************************************************************)
(* A Field used on its own                                                 *)
(***************************************************************************)
NewField ==
    \E attr \in Wrappers, make_label \in BOOLEAN :
        /\ fld' = Field_init(attr, make_label)
        /\ out' = NoRender
        /\ UNCHANGED <<meta, binding, ga, frame>>

\* Field.set_make_label
SetMakeLabel ==
    /\ fld.wrapper # "None"
    /\ \E value \in BOOLEAN :
        /\ fld' = [fld EXCEPT !.make_label = value]
        /\ out' = NoRender
        /\ UNCHANGED <<meta, binding, ga, frame>>

\* BaseColumnRender.set_attr
SetAttr ==
    /\ fld.wrapper # "None"
    /\ \E attr \in Wrappers :
        /\ fld' = [fld EXCEPT !.wrapper = attr]
        /\ out' = NoRender
        /\ UNCHANGED <<meta, binding, ga, frame>>

FieldOptions(focus, error, doc) == [focus |-> focus, error |-> error, doc |-> doc]

\* Field.render(**options)
RenderOne ==
    /\ fld.wrapper # "None"
    /\ \E focus \in FocusValues, error \in UpToOne(Columns), doc \in {{}, Columns},
       make_label \in {"unset", "True", "False"} :
        LET options == IF make_label = "unset"
                       THEN FieldOptions(focus, error, doc)
                       ELSE FieldOptions(focus, error, doc)
                              @@ [make_label |-> make_label = "True"]
            r == Field_render(fld, options)
        IN  /\ fld' = r.self
            /\ out' = [called |-> TRUE, self |-> fld, options |-> options, ret |-> r.ret]
            /\ UNCHANGED <<meta, binding, ga, frame>>

CallBind ==
    \E order \in Orders, model \in Models, session \in Sessions : Bind(order, model, session)

(***************************************************************************)
(* Specifications                                                          *)
(***************************************************************************)
Next ==
    \/ CallBind
    \/ CallGetAttrs
    \/ RenderFirst
    \/ RenderAgain
    \/ RenderField
    \/ RenderReturn
    \/ NewField
    \/ SetMakeLabel
    \/ SetAttr
    \/ RenderOne

Spec == Init /\ [][Next]_vars

\* attribute selection over every assignment of key flags
InitSelect ==
    /\ Init
    /\ nullable = {"bio"}
    /\ render_as = [w \in Wrappers |-> TextField]
    /\ OneBinding

SpecSelect == InitSelect /\ [][CallGetAttrs]_vars

\* form rendering over every assignment of widgets
InitRender == Init /\ ExampleColumns /\ OneBinding

NextRender == RenderFirst \/ RenderAgain \/ RenderField \/ RenderReturn

SpecRender == InitRender /\ [][NextRender]_vars

\* a Field on its own over every assignment of widgets
NextField == NewField \/ SetMakeLabel \/ SetAttr \/ RenderOne

SpecField == InitRender /\ [][NextField]_vars

\* binding over every assignment of key flags and every construction
InitBind ==
    /\ Init
    /\ nullable = {"bio"}
    /\ render_as = [w \in Wrappers |-> TextField]

SpecBind == InitBind /\ [][CallBind]_vars

(***************************************************************************)
(* Properties of attribute selection (SpecSelect)                          *)
(***************************************************************************)
GaReturned == ga.called /\ ga.ret.raised = ""

NoDuplicates(s) == \A i, j \in 1..Len(s) : i # j => s[i] # s[j]

SortedByName(s) ==
    \A i, j \in 1..Len(s) : i < j => NameRank(Name(s[i])) < NameRank(Name(s[j]))

PkAbsentIffPkFalse ==
    (GaReturned /\ ga.kwargs.include = <<>>) =>
        /\ \A w \in primary_key : (w \notin Range(ga.ret.value)) <=> ~ga.kwargs.pk
        /\ \A w \in raw_foreign_key : w \notin Range(ga.ret.value)

\* C2 amended: with `include` empty, a primary-key wrapper is absent from the
\* selection iff pk is false or the wrapper is in `exclude` or is a raw
\* foreign key; every raw foreign key is absent whatever the options.
PkAbsentIffIgnored ==
    (GaReturned /\ ga.kwargs.include = <<>>) =>
        /\ \A w \in primary_key :
              (w \notin Range(ga.ret.value)) <=>
                  (~ga.kwargs.pk \/ w \in ga.kwargs.exclude \/ w \in raw_foreign_key)
        /\ \A w \in raw_foreign_key : w \notin Range(ga.ret.value)

\* C2 witness: with pk=True one primary key is selected and another, listed
\* in `exclude`, is not; a raw foreign key is left out
PkAbsentIffIgnoredWitness ==
    /\ GaReturned
    /\ ga.kwargs.include = <<>>
    /\ ga.kwargs.pk
    /\ \E w \in primary_key : w \in ga.kwargs.exclude /\ w \notin Range(ga.ret.value)
    /\ \E w \in primary_key : w \in Range(ga.ret.value)
    /\ raw_foreign_key # {}

\* C3: with `include` and `exclude` empty the list returned is in ascending
\* name order, and it is the list every other call with the same options
\* returns, whatever order the form's dict is iterated in.
SortedAndReproducible ==
    (GaReturned /\ ga.kwargs.include = <<>> /\ ga.kwargs.exclude = {}) =>
        /\ SortedByName(ga.ret.value)
        /\ \A order \in Orders : get_attrs(order, ga.kwargs) = ga.ret

\* C3 witness: all three wrappers selected from a dict iterated in
\* descending name order
SortedAndReproducibleWitness ==
    /\ GaReturned
    /\ ga.kwargs.include = <<>>
    /\ ga.kwargs.exclude = {}
    /\ Len(ga.ret.value) = Cardinality(Wrappers)
    /\ \A i \in 1..(Len(ga.order) - 1) :
          NameRank(Name(ga.order[i])) > NameRank(Name(ga.order[i + 1]))

\* C9 as stated: the list get_attrs returns never holds a wrapper twice.
NeverDuplicates == GaReturned => NoDuplicates(ga.ret.value)

\* C9 amended: the list get_attrs returns holds no wrapper twice unless the
\* `include` list passed in does (always so when `include` is empty).
NoDuplicatesUnlessIncluded ==
    (GaReturned /\ NoDuplicates(ga.kwargs.include)) => NoDuplicates(ga.ret.value)

\* C9 witness: a default selection of several wrappers, primary keys among
\* them, with pk=False not asked for
NoDuplicatesUnlessIncludedWitness ==
    /\ GaReturned
    /\ ga.kwargs.include = <<>>
    /\ ga.kwargs.pk
    /\ Len(ga.ret.value) >= 2
    /\ \E i \in 1..Len(ga.ret.value) : ga.ret.value[i] \in primary_key

(***************************************************************************)
(* Properties of form rendering (SpecRender)                               *)
(***************************************************************************)
\* C4: a render (and the get_attrs call it makes) given a non-empty
\* `include` and a non-empty `exclude` raises the conflict error before a
\* Field is created: nothing is rendered and no markup is returned.
ConflictRaisesBeforeRendering ==
    (frame.pc # "idle" /\ frame.opts.include # <<>> /\ frame.opts.exclude # {}) =>
        /\ frame.pc = "raised"
        /\ frame.raised = ConflictingFilter
        /\ frame.field_render = NoField
        /\ frame.html = <<>>
        /\ frame.ret = <<>>

\* C4 witness: a render with both filters given has raised
ConflictRaisesBeforeRenderingWitness ==
    /\ frame.pc = "raised"
    /\ frame.opts.include # <<>>
    /\ frame.opts.exclude # {}

\* the positions of the rendered fields that carry a focus script
Emitters(html) == {k \in 1..Len(html) : HasTag(html[k], "script")}

\* the focus criterion of the claim
MatchesFocus(w, focus) == focus = "True" \/ focus = Column(w)

\* C5 as stated: in a finished render at most one field carries a focus
\* script, and it is the first field of the selection matching the focus
\* criterion.
FocusOnFirstMatch ==
    frame.pc = "done" =>
        /\ Cardinality(Emitters(frame.html)) <= 1
        /\ \A k \in Emitters(frame.html) :
              /\ MatchesFocus(frame.attrs[k], frame.opts.focus)
              /\ \A j \in 1..(k - 1) : ~MatchesFocus(frame.attrs[j], frame.opts.focus)

\* C5 amended: in a finished render at most one field carries a focus
\* script, and it is the first field of the selection that is not hidden
\* and matches the focus criterion.
FocusOnFirstVisibleMatch ==
    frame.pc = "done" =>
        /\ Cardinality(Emitters(frame.html)) <= 1
        /\ \A k \in Emitters(frame.html) :
              /\ MatchesFocus(frame.attrs[k], frame.opts.focus)
              /\ render_as[frame.attrs[k]] # HiddenField
              /\ \A j \in 1..(k - 1) :
                    ~(MatchesFocus(frame.attrs[j], frame.opts.focus)
                        /\ render_as[frame.attrs[j]] # HiddenField)

\* C5 witness: focus=True, a hidden field first, and the script on the
\* second field, a later field matching as well
FocusOnFirstVisibleMatchWitness ==
    /\ frame.pc = "done"
    /\ frame.opts.focus = "True"
    /\ Len(frame.attrs) >= 2
    /\ render_as[frame.attrs[1]] = HiddenField
    /\ Emitters(frame.html) = {2}

\* a form rendered from scratch by a Field that has emitted nothing
RECURSIVE RenderedAfresh(_, _)
RenderedAfresh(field, attrs) ==
    IF attrs = <<>> THEN <<>>
    ELSE LET r == Field_render([field EXCEPT !.wrapper = Head(attrs)], NoOptions)
         IN  <<r.ret>> \o RenderedAfresh(r.self, Tail(attrs))

\* C10: every render pass starts with the focus flag cleared, within a pass
\* the flag once set stays set, and a finished render carries the focus
\* script where a first render with these options carries it.
FocusFlagPerPass ==
    [][/\ (frame.pc # "loop" /\ frame'.pc = "loop") =>
              ~frame'.field_render.focus_rendered
       /\ (frame.pc = "loop" /\ frame.field_render.focus_rendered) =>
              (frame'.pc \in {"loop", "done"} /\ frame'.field_render.focus_rendered)
       /\ frame'.pc = "done" =>
              Emitters(frame'.html) =
                  Emitters(RenderedAfresh(
                      [NoField EXCEPT !.config = frame'.opts], frame'.attrs))
      ]_vars

\* C10 witness: a render that follows one which emitted a focus script has
\* emitted its own
FocusFlagPerPassWitness ==
    /\ frame.prior_focus
    /\ frame.pc = "done"
    /\ Emitters(frame.html) # {}

(***************************************************************************)
(* Properties of Field.render (SpecField)                                  *)
(***************************************************************************)
\* C6: the markup of a hidden field is the input alone, whatever the
\* options and the Field's flags, and the Field's focus flag is untouched.
HiddenIsInputOnly ==
    (out.called /\ render_as[out.self.wrapper] = HiddenField) =>
        /\ out.ret = <<Tag("input", Name(out.self.wrapper), "")>>
        /\ fld = out.self

\* C6 witness: a hidden field rendered with a label asked for, focus=True,
\* an error and a doc for its column, by a Field that has not emitted focus
HiddenIsInputOnlyWitness ==
    /\ out.called
    /\ render_as[out.self.wrapper] = HiddenField
    /\ out.self.make_label
    /\ ~out.self.focus_rendered
    /\ "make_label" \in DOMAIN out.options
    /\ out.options.make_label
    /\ out.options.focus = "True"
    /\ Column(out.self.wrapper) \in out.options.error
    /\ Column(out.self.wrapper) \in out.options.doc

\* C8: a field that is not hidden is wrapped in the block container iff the
\* effective make_label (the option, else the Field's flag) is true, that
\* is iff the label is rendered.
WrappedIffLabelled ==
    (out.called /\ render_as[out.self.wrapper] # HiddenField) =>
        /\ HasTag(out.ret, "<div>") <=> Get(out.options, "make_label", out.self.make_label)
        /\ HasTag(out.ret, "<div>") <=> HasTag(out.ret, "label")

(***************************************************************************)
(* Properties of binding (SpecBind)                                        *)
(***************************************************************************)
\* C7: after a bind every wrapper of the form refers to the model and the
\* session bound, and the form holds the wrappers it held before.
BindRebindsEveryWrapper ==
    [][(fs' # fs \/ wrapper_model' # wrapper_model) =>
          /\ DOMAIN wrapper_model' = DOMAIN wrapper_model
          /\ \A w \in Wrappers :
                /\ wrapper_model'[w] = fs'.model
                /\ wrapper_session'[w] = fs'.session
      ]_vars

=============================================================================
